---- MODULE Spec2Model ----
(***************************************************************************)
(* A model of v0.5/tools/submission/submission-checker.py, the checker of  *)
(* mlperf inference submissions.                                           *)
(*                                                                         *)
(* Text is modelled as TLA+ strings, read character by character with      *)
(* SubSeq.  A TLA+ string holds ASCII characters only, so the files are    *)
(* ASCII text: \d, \w and \s are the classes the re module has on ASCII,   *)
(* and the digits and spaces Unicode adds to them are outside the model.   *)
(* A path is the string os.path.join builds; a directory is a record       *)
(* [list, dirs, text]: the names os.listdir returns for its regular        *)
(* files, in listing order, the names of its subdirectories, and the       *)
(* lines of the files the code reads.  A Python exception is the value of  *)
(* an operator (raised |-> TRUE) and, where nothing catches it, the        *)
(* control state "raised".                                                 *)
(***************************************************************************)
EXTENDS Integers, Sequences, FiniteSets, TLC

VARIABLES
    pc,          \* position of the running call
    arg,         \* the arguments of the call, and the directory tree it walks
    ret,         \* what the call returned
    queue,       \* check_results_dir: what the nested listings have still to yield
    cur,         \* check_results_dir: the loop variables
    good,        \* good_submissions
    bad,         \* bad_submissions
    results,     \* results
    seen,        \* per submission, what the walk found on disk (history)
    has_warned,      \* whether log.warning was called
    idx,         \* the position of the cross-reference loops in good_submissions
    checked,     \* check_system_desc_id: checked
    meta_errors,         \* the errors of check_system_desc_id
    measurement_errors   \* the errors of check_measurement_dir

vars == <<pc, arg, ret, queue, cur, good, bad, results, seen, has_warned, idx, checked,
          meta_errors, measurement_errors>>

\* the variables of the cross-reference checks
xvars == <<idx, checked, meta_errors, measurement_errors>>

\* the variables of check_results_dir and of the checks that follow it
walkvars == <<queue, cur, good, bad, results, seen, has_warned, xvars>>

(***************************************************************************)
(* Bounds of the model.                                                    *)
(***************************************************************************)
\* the longest directory listing handed to files_diff
MaxFiles == 4

(***************************************************************************)
(* Characters and strings.                                                 *)
(***************************************************************************)
Digits == {"0", "1", "2", "3", "4", "5", "6", "7", "8", "9"}

Letters ==
    {"a", "b", "c", "d", "e", "f", "g", "h", "i", "j", "k", "l", "m",
     "n", "o", "p", "q", "r", "s", "t", "u", "v", "w", "x", "y", "z",
     "A", "B", "C", "D", "E", "F", "G", "H", "I", "J", "K", "L", "M",
     "N", "O", "P", "Q", "R", "S", "T", "U", "V", "W", "X", "Y", "Z"}

\* \w of the re module, on ASCII text
WordChars == Letters \cup Digits \cup {"_"}

\* \s of the re module, and what str.strip, int and float skip.  The text of
\* the files is ASCII, and TLA+ has no escape for the last five members: they
\* are the characters 11 (VT), 28 (FS), 29 (GS), 30 (RS) and 31 (US).
WhiteSpace == {" ", "\t", "\n", "\r", "\f", "", "", "", "", ""}

Char(s, i) == SubSeq(s, i, i)

\* str.startswith
StartsWith(s, p) == Len(p) <= Len(s) /\ SubSeq(s, 1, Len(p)) = p

\* str.endswith
EndsWith(s, p) == Len(p) <= Len(s) /\ SubSeq(s, Len(s) - Len(p) + 1, Len(s)) = p

\* p at position i of s
MatchAt(s, i, p) == i + Len(p) - 1 <= Len(s) /\ SubSeq(s, i, i + Len(p) - 1) = p

\* the "in" operator on strings
Contains(s, p) == \E i \in 1..(Len(s) + 1) : MatchAt(s, i, p)

\* the first position at or after i whose character is not in class: where a
\* greedy class* that starts at i stops
SpanEnd(s, i, class) ==
    IF i > Len(s) THEN i
    ELSE CHOOSE j \in i..(Len(s) + 1) :
            /\ j = Len(s) + 1 \/ Char(s, j) \notin class
            /\ \A h \in i..(j - 1) : Char(s, h) \in class

\* the last position at or before i whose character is not in class
SpanStart(s, i, class) ==
    IF i < 1 THEN i
    ELSE CHOOSE j \in 0..i :
            /\ j = 0 \/ Char(s, j) \notin class
            /\ \A h \in (j + 1)..i : Char(s, h) \in class

\* s without the characters of class at its ends
StripOf(s, class) ==
    LET a == SpanEnd(s, 1, class)
        b == SpanStart(s, Len(s), class)
    IN  IF a > b THEN "" ELSE SubSeq(s, a, b)

\* str.strip
Strip(s) == StripOf(s, WhiteSpace)

\* the first position at or after i of a character of class, 0 when there
\* is none
FindAny(s, i, class) ==
    IF \E j \in i..Len(s) : Char(s, j) \in class
    THEN CHOOSE j \in i..Len(s) :
            /\ Char(s, j) \in class
            /\ \A h \in i..(j - 1) : Char(s, h) \notin class
    ELSE 0


\* os.path.join of two components
Join(a, b) == a \o "/" \o b

\* the position of the first "/" or "\\" of s at or after i, Len(s) + 1 when
\* there is none
RECURSIVE FindSep(_, _)
FindSep(s, i) ==
    IF i > Len(s) \/ Char(s, i) \in {"/", "\\"} THEN i ELSE FindSep(s, i + 1)

RECURSIVE SplitFrom(_, _)
SplitFrom(s, i) ==
    LET j == FindSep(s, i)
    IN  IF j > Len(s) THEN <<SubSeq(s, i, Len(s))>>
        ELSE <<SubSeq(s, i, j - 1)>> \o SplitFrom(s, j + 1)

\* m.replace("\\", "/").split("/")
split_path(m) == SplitFrom(m, 1)

\* the elements of a sequence
Range(q) == {q[i] : i \in DOMAIN q}

(***************************************************************************)
(* Static tables.                                                          *)
(***************************************************************************)
VALID_MODELS == <<"ssd-small", "ssd-large", "mobilenet", "resnet", "gnmt">>

VALID_DIVISIONS == <<"open", "closed">>

REQUIRED_PERF_FILES ==
    <<"mlperf_log_accuracy.json", "mlperf_log_summary.txt", "mlperf_log_detail.txt">>

REQUIRED_ACC_FILES == REQUIRED_PERF_FILES \o <<"accuracy.txt">>

REQUIRED_MEASURE_FILES == <<"mlperf.conf", "user.conf", "README.md">>

TOMS == 1000 * 1000

PERFORMANCE_SAMPLE_COUNT ==
    [m \in {"mobilenet", "resnet50", "resnet", "ssd-mobilenet", "ssd-small",
            "ssd-resnet34", "ssd-large", "gnmt"} |->
        CASE m \in {"mobilenet", "resnet50", "resnet"} -> 1024
          [] m \in {"ssd-mobilenet", "ssd-small"} -> 256
          [] m \in {"ssd-resnet34", "ssd-large"} -> 64
          [] OTHER -> 3903900]

\* A Python value whose type the code does not fix (None or a str, a str or
\* a float, a value of a JSON document) is a record [t, v]: the name of its
\* type and its text.  None is equal to no str, the str "None" included.
None == [t |-> "NoneType", v |-> ""]

Str(s) == [t |-> "str", v |-> s]

Float(v) == [t |-> "float", v |-> v]

(***************************************************************************)
(* model_map                                                               *)
(***************************************************************************)
model_map(model) ==
    LET m == IF StartsWith(model, "mobilenet") THEN "mobilenet"
             ELSE IF StartsWith(model, "rcnn") THEN "ssd-small"
             ELSE IF \/ StartsWith(model, "ssdlite")
                     \/ StartsWith(model, "ssd-inception")
                     \/ StartsWith(model, "yolo")
                     \/ StartsWith(model, "ssd-mobilenet")
                     \/ StartsWith(model, "ssd-resnet50")
                  THEN "ssd-small"
             ELSE model
    IN  IF m \notin DOMAIN PERFORMANCE_SAMPLE_COUNT THEN None ELSE Str(m)

(***************************************************************************)
(* files_diff                                                              *)
(***************************************************************************)
\* list.remove(x) inside try/except: the first x goes, a list without x stays
RECURSIVE RemoveFirst(_, _)
RemoveFirst(q, x) ==
    IF q = <<>> THEN <<>>
    ELSE IF Head(q) = x THEN Tail(q)
    ELSE <<Head(q)>> \o RemoveFirst(Tail(q), x)

\* list1 stripped of the two optional files (lines 212-216)
StripOptional(q) == RemoveFirst(RemoveFirst(q, "mlperf_log_trace.json"), "results.json")

\* the returned list, as the set of its elements
files_diff(l1, l2) ==
    IF l1 # <<>> /\ l2 # <<>>
    THEN LET s1 == StripOptional(l1)
         IN  IF Len(s1) > Len(l2)
             THEN Range(s1) \ Range(l2)
             ELSE Range(l2) \ Range(s1)
    ELSE {}

(***************************************************************************)
(* Numbers: int() and float() of a text.  Both skip white space at the     *)
(* ends, take a sign, and take "_" between two digits.  A float is         *)
(* Float(v), v the value of the text in plain decimal notation without     *)
(* needless zeros ("1234.5", "-0.001", "100000" for "1e5"), or "inf",      *)
(* "-inf", "nan".  float() rounds that value to the nearest double: a      *)
(* value beyond the largest double is "inf", one that rounds to zero is    *)
(* "0", and a comparison with a double is made with the decimal at which   *)
(* the rounding changes side.  Values are texts, so no length overflows.   *)
(***************************************************************************)
\* the white space int() and float() skip at the ends of an ASCII text:
\* the characters 9 to 13 and the space, without the four separators 28-31
\* that str.strip removes
NumberSpace == WhiteSpace \ {"", "", "", ""}

\* the text int() and float() read
NumberText(s) == StripOf(s, NumberSpace)

DigitVal(c) ==
    CASE c = "0" -> 0 [] c = "1" -> 1 [] c = "2" -> 2 [] c = "3" -> 3
      [] c = "4" -> 4 [] c = "5" -> 5 [] c = "6" -> 6 [] c = "7" -> 7
      [] c = "8" -> 8 [] c = "9" -> 9

IsDigits(s) == s # "" /\ \A i \in 1..Len(s) : Char(s, i) \in Digits

\* every "_" of s stands between two digits
ValidUnderscores(s) ==
    \A i \in 1..Len(s) :
        Char(s, i) = "_" =>
            /\ i > 1 /\ Char(s, i - 1) \in Digits
            /\ i < Len(s) /\ Char(s, i + 1) \in Digits

\* s without its underscores, half by half
RECURSIVE DropUnderscores(_)
DropUnderscores(s) ==
    IF Len(s) <= 1 THEN (IF s = "_" THEN "" ELSE s)
    ELSE DropUnderscores(SubSeq(s, 1, Len(s) \div 2))
         \o DropUnderscores(SubSeq(s, Len(s) \div 2 + 1, Len(s)))

\* digits, with single underscores between them
IsDigitRun(s) == ValidUnderscores(s) /\ IsDigits(DropUnderscores(s))

RECURSIVE DigitsVal(_, _)
DigitsVal(s, acc) ==
    IF s = "" THEN acc
    ELSE IF Head(s) = "_" THEN DigitsVal(Tail(s), acc)
    ELSE DigitsVal(Tail(s), acc * 10 + DigitVal(Head(s)))

Unsigned(s) == IF s # "" /\ Head(s) \in {"+", "-"} THEN Tail(s) ELSE s

SignOf(s) == IF s # "" /\ Head(s) = "-" THEN -1 ELSE 1

\* the most digits int() converts (sys.int_info.default_max_str_digits)
MaxStrDigits == 4300

\* int(s) does not raise ValueError: s is a run of digits, and has no more
\* than MaxStrDigits of them, leading zeros counted and underscores not
IsIntLit(s) ==
    /\ IsDigitRun(Unsigned(NumberText(s)))
    /\ Len(DropUnderscores(Unsigned(NumberText(s)))) <= MaxStrDigits

\* s without its leading zeros, the last digit kept
DropZeros(s) ==
    LET a == SpanEnd(s, 1, {"0"})
    IN  IF a > Len(s) THEN SubSeq(s, Len(s), Len(s)) ELSE SubSeq(s, a, Len(s))

\* int(s) < n for n >= 0, for the sign of int(s) and its digits c without
\* sign, underscores and leading zeros; an int
\* of ten digits or more is above every table value
IntLessOf(neg, c, n) ==
    IF neg THEN c # "0" \/ n > 0
    ELSE Len(c) <= 9 /\ DigitsVal(c, 0) < n

IntLess(s, n) ==
    IntLessOf(SignOf(NumberText(s)) = -1,
              DropZeros(DropUnderscores(Unsigned(NumberText(s)))), n)

\* str.lower on ASCII text
ToLower(c) ==
    LET upper == "ABCDEFGHIJKLMNOPQRSTUVWXYZ"
        lower == "abcdefghijklmnopqrstuvwxyz"
    IN  IF \E i \in 1..26 : Char(upper, i) = c
        THEN Char(lower, CHOOSE i \in 1..26 : Char(upper, i) = c)
        ELSE c

RECURSIVE Lower(_)
Lower(s) ==
    IF Len(s) <= 1 THEN ToLower(s)
    ELSE Lower(SubSeq(s, 1, Len(s) \div 2)) \o Lower(SubSeq(s, Len(s) \div 2 + 1, Len(s)))

\* the parts of a float text, for its sign, its text u without sign and
\* underscores and the position x of its exponent mark (0 without one):
\* the text in lower case, the digits before and after the point p of the
\* mantissa, and the exponent
PartsAt(neg, u, x) ==
    LET last == IF x = 0 THEN Len(u) ELSE x - 1
        q == FindAny(u, 1, {"."})
        p == IF x # 0 /\ q > x THEN 0 ELSE q
    IN  [neg |-> neg,
         word |-> Lower(u),
         ip |-> IF p = 0 THEN SubSeq(u, 1, last) ELSE SubSeq(u, 1, p - 1),
         fp |-> IF p = 0 THEN "" ELSE SubSeq(u, p + 1, last),
         has_exp |-> x # 0,
         exp |-> IF x = 0 THEN "" ELSE SubSeq(u, x + 1, Len(u))]

\* the exponent mark is the first "e" or "E"
PartsWith(neg, u) == PartsAt(neg, u, FindAny(u, 1, {"e", "E"}))

PartsOf(t) == PartsWith(SignOf(t) = -1, DropUnderscores(Unsigned(t)))

\* the most digits float() converts (MAX_DIGITS of the runtime's string to
\* double conversion)
MaxDigits == 1000000000

\* the grammar of float(): inf, infinity or nan in any case, or digits with
\* at most one point and at least one digit, and an exponent of digits.
\* The digits after the point are no more than MaxDigits, and neither are
\* the digits of the mantissa counted without its leading zeros: those
\* before the point and, when no other digit stands before it, those that
\* follow the point.
IsFloatParts(f) ==
    \/ f.word \in {"inf", "infinity", "nan"}
    \/ /\ f.ip = "" \/ IsDigits(f.ip)
       /\ f.fp = "" \/ IsDigits(f.fp)
       /\ ~(f.ip = "" /\ f.fp = "")
       /\ f.has_exp => IsDigits(Unsigned(f.exp))
       /\ Len(f.fp) <= MaxDigits
       /\ LET zi == SpanEnd(f.ip, 1, {"0"}) - 1
              zf == SpanEnd(f.fp, 1, {"0"}) - 1
          IN  (IF zi < Len(f.ip) THEN Len(f.ip) - zi + Len(f.fp)
               ELSE Len(f.fp) - zf) <= MaxDigits

\* float(s) does not raise ValueError
IsFloatLit(s) == ValidUnderscores(NumberText(s)) /\ IsFloatParts(PartsOf(NumberText(s)))

\* k zeros, half by half
RECURSIVE Zeros(_)
Zeros(k) ==
    IF k <= 0 THEN ""
    ELSE Zeros(k \div 2) \o Zeros(k \div 2) \o (IF k % 2 = 1 THEN "0" ELSE "")

DropTrailingZeros(s) == SubSeq(s, 1, SpanStart(s, Len(s), {"0"}))

\* 0.a < 0.b for digit texts a and b without trailing zeros: the first
\* digit that differs decides, and a text precedes those it begins
FracLess(a, b) ==
    LET n == IF Len(a) < Len(b) THEN Len(a) ELSE Len(b)
        differ == {i \in 1..n : Char(a, i) # Char(b, i)}
        first == CHOOSE i \in differ : \A j \in differ : i <= j
    IN  IF differ = {} THEN Len(a) < Len(b)
        ELSE DigitVal(Char(a, first)) < DigitVal(Char(b, first))

\* the largest exponent float() keeps apart (MAX_ABS_EXP of the runtime's
\* string to double conversion)
MaxAbsExp == 1100000000

\* the exponent of a float text, for its digits c without leading zeros:
\* the number written, and MaxAbsExp for one of ten digits or more
ExpOf(sign, c) == sign * (IF Len(c) > 9 THEN MaxAbsExp ELSE DigitsVal(c, 0))

ExpVal(x) == IF x = "" THEN 0 ELSE ExpOf(SignOf(x), DropZeros(Unsigned(x)))

\* 2^1024 - 2^970, the least value that float() rounds to infinity, is
\* 0.MaxDoubleDigits * 10^309
MaxDoubleDigits ==
    "179769313486231580793728971405303415079934132710037826936173"
    \o "778980444968292764750946649017977587207096330286416692887910"
    \o "946555547851940402630657488671505820681908902000708383676273"
    \o "854845817711531764475730270069855571366959622842914819860834"
    \o "936475292719074168444365510704342711559699508093042880177904"
    \o "174497792"

\* 2^-1075, the greatest value that float() rounds to zero, is
\* 0.MinDoubleDigits * 10^-323
MinDoubleDigits ==
    "247032822920623272088284396434110686182529901307162382212792"
    \o "841250337753635104375932649918180817996189898282347722858865"
    \o "463328355177969898199387398005390939063150356595155702263922"
    \o "908583924491051844359318028499365361525003193704576782492193"
    \o "656236698636584807570015857692699037063119282795585513329278"
    \o "343384093519780155312465972635795746227664652728272200563740"
    \o "064854999770965994704540208281662262378573934507363390079677"
    \o "619305775067401763246736009689513405355374585166611342237666"
    \o "786041621596804619144672918403005300575308490487653917113865"
    \o "916462395249126236538818796362393732804238910186723484976682"
    \o "350898633885879256283027559956575244555072551893136908362547"
    \o "791869486679949683240497058210285131854513962138377228261454"
    \o "37693412532098591327667236328125"

\* 0.d * 10^p in plain decimal notation, for digits d without zeros at
\* either end
Plain(d, p) ==
    IF p <= 0 THEN "0." \o Zeros(-p) \o d
    ELSE IF p >= Len(d) THEN d \o Zeros(p - Len(d))
    ELSE SubSeq(d, 1, p) \o "." \o SubSeq(d, p + 1, Len(d))

\* the double nearest to 0.d * 10^p, for digits d without zeros at either
\* end ("" for zero); word is the text in lower case
Rounded(sign, word, d, p) ==
    Float(IF word = "nan" THEN "nan"
          ELSE IF word \in {"inf", "infinity"} THEN sign \o "inf"
          ELSE IF d = "" THEN sign \o "0"
          ELSE IF p > 309 \/ (p = 309 /\ ~FracLess(d, MaxDoubleDigits))
          THEN sign \o "inf"
          ELSE IF p < -323 \/ (p = -323 /\ ~FracLess(MinDoubleDigits, d))
          THEN sign \o "0"
          ELSE sign \o Plain(d, p))

\* the digits all without the zeros at their ends
Significant(all) == DropTrailingZeros(SubSeq(all, SpanEnd(all, 1, {"0"}), Len(all)))

FloatOf(f) ==
    Rounded(IF f.neg THEN "-" ELSE "", f.word, Significant(f.ip \o f.fp),
            Len(f.ip) - (SpanEnd(f.ip \o f.fp, 1, {"0"}) - 1) + ExpVal(f.exp))

\* float(s)
FloatVal(s) == FloatOf(PartsOf(NumberText(s)))

\* res /= k: the double that the division of the double r by k gives,
\* written as the division
FloatDiv(r, k) == Float(r.v \o "/" \o ToString(k))

\* a < b for two values in plain decimal notation that are not negative
DecLess(a, b) ==
    LET pa == FindAny(a, 1, {"."})
        pb == FindAny(b, 1, {"."})
        ia == IF pa = 0 THEN a ELSE SubSeq(a, 1, pa - 1)
        ib == IF pb = 0 THEN b ELSE SubSeq(b, 1, pb - 1)
        fa == IF pa = 0 THEN "" ELSE SubSeq(a, pa + 1, Len(a))
        fb == IF pb = 0 THEN "" ELSE SubSeq(b, pb + 1, Len(b))
    IN  IF Len(ia) # Len(ib) THEN Len(ia) < Len(ib)
        ELSE IF ia # ib THEN FracLess(ia, ib)
        ELSE FracLess(fa, fb)

\* The accuracy targets.  value is the double the product of the source is
\* (71.68 * 0.98 is 70.24640000000001...), written out in full; below is the
\* value halfway between that double and the one before it, and tie_below
\* says whether float() rounds a text of exactly that value downwards.
\* float(acc) is below the target exactly when acc is below `below`, or equal
\* to it with tie_below.
ACCURAY_TARGET ==
    [m \in DOMAIN PERFORMANCE_SAMPLE_COUNT |->
        CASE m = "mobilenet" ->
               [value |-> "70.2464000000000083900886238552629947662353515625",
                below |-> "70.24640000000000128466126625426113605499267578125",
                tie_below |-> TRUE]
          [] m \in {"resnet50", "resnet"} ->
               [value |-> "75.6953999999999922465576673857867717742919921875",
                below |-> "75.69539999999998514113030978478491306304931640625",
                tie_below |-> TRUE]
          [] m \in {"ssd-mobilenet", "ssd-small"} ->
               [value |-> "21.780000000000001136868377216160297393798828125",
                below |-> "21.7799999999999993605115378159098327159881591796875",
                tie_below |-> FALSE]
          [] m \in {"ssd-resnet34", "ssd-large"} ->
               [value |-> "19.800000000000000710542735760100185871124267578125",
                below |-> "19.7999999999999989341858963598497211933135986328125",
                tie_below |-> TRUE]
          [] OTHER ->
               [value |-> "23.660999999999997811528373858891427516937255859375",
                below |-> "23.6609999999999960351715344586409628391265869140625",
                tie_below |-> TRUE]]

\* float(acc) < target_acc, for r = float(acc)
BelowTarget(r, t) ==
    CASE r.v = "nan" -> FALSE
      [] r.v = "inf" -> FALSE
      [] Head(r.v) = "-" -> TRUE
      [] OTHER -> DecLess(r.v, t.below) \/ (r.v = t.below /\ t.tie_below)

SEEDS ==
    [s \in {"qsl_rng_seed", "sample_index_rng_seed", "schedule_rng_seed"} |->
        CASE s = "qsl_rng_seed" -> "3133965575612453542"
          [] s = "sample_index_rng_seed" -> "665484352860916858"
          [] OTHER -> "3622009729038561421"]

RESULT_VALUE ==
    [s \in {"Offline", "Single", "Multi", "Server"} |->
        CASE s = "Offline" -> "Samples per second"
          [] s = "Single" -> "90th percentile latency (ns)"
          [] s = "Multi" -> "Samples per query"
          [] OTHER -> "Scheduled samples per second"]

(***************************************************************************)
(* Directories.                                                            *)
(***************************************************************************)
\* A directory is [list, dirs, text]: list is what list_files returns, the
\* regular files in the order of os.listdir; dirs is the set of the entries
\* that are directories; text gives the lines of the files read.

\* os.path.exists(os.path.join(dir, f))
Exists(dir, f) == f \in Range(dir.list) \cup dir.dirs

\* open(os.path.join(dir, f), "r") does not raise: f is there, and is no
\* directory
Opens(dir, f) == f \in Range(dir.list)

\* the lines of file f of dir
Lines(dir, f) == IF f \in DOMAIN dir.text THEN dir.text[f] ELSE <<>>

(***************************************************************************)
(* ignore_errors                                                           *)
(***************************************************************************)
ignore_errors(line) ==
    IF Contains(line, "check for ERROR in detailed") THEN TRUE
    ELSE IF Contains(line, "Loadgen built with uncommitted changes") THEN TRUE
    ELSE IF Contains(line, "Ran out of generated queries to issue before the minimum query count and test duration were reached") THEN TRUE
    ELSE IF "CAS failed" # "" THEN TRUE     \* if "CAS failed": a non-empty literal
    ELSE FALSE

\* the lines of a detail log that are logged as warnings
DetailWarnings(lines) ==
    {i \in DOMAIN lines : Contains(lines[i], "ERROR") /\ ~ignore_errors(lines[i])}

(***************************************************************************)
(* check_accuracy_dir                                                      *)
(***************************************************************************)
\* group 1 of the first of the three patterns that matches line, None when
\* none does (lines 122-136)
acc_match(line) ==
    LET from == IF StartsWith(line, "accuracy=") THEN 10
                ELSE IF StartsWith(line, "mAP=") THEN 5
                ELSE IF StartsWith(line, "BLEU:") THEN SpanEnd(line, 6, WhiteSpace)
                ELSE 0
        to == SpanEnd(line, from, Digits \cup {"."})
    IN  IF from = 0 \/ to = from THEN None ELSE Str(SubSeq(line, from, to - 1))

\* the loop of lines 121-136: the capture of the first line that matches
RECURSIVE first_acc(_)
first_acc(lines) ==
    IF lines = <<>> THEN None
    ELSE IF acc_match(Head(lines)) # None THEN acc_match(Head(lines))
    ELSE first_acc(Tail(lines))

\* lines 138-146: is_valid after the comparison with the model's target, for
\* an accuracy text acc that float() takes
target_check(model_norm, acc) ==
    IF model_norm # None
    THEN ~BelowTarget(FloatVal(acc.v), ACCURAY_TARGET[model_norm.v])
    ELSE TRUE       \* logs "unknown model" and leaves is_valid as it is

\* [raised, valid, warned]: whether the call raised, the returned is_valid,
\* and whether it logged a warning.  It raises when accuracy.txt does not
\* open (line 120), when float() rejects the accuracy (line 142), and when
\* the detail log exists and does not open (lines 150-153).
check_accuracy_dir(model, dir) ==
    LET acc == first_acc(Lines(dir, "accuracy.txt"))
        model_norm == model_map(model)
        detail == Lines(dir, "mlperf_log_detail.txt")
        warned == \/ ~Exists(dir, "mlperf_log_detail.txt")
                  \/ DetailWarnings(detail) # {}
        raises ==
            \/ ~Opens(dir, "accuracy.txt")
            \/ acc # None /\ model_norm # None /\ ~IsFloatLit(acc.v)
            \/ Exists(dir, "mlperf_log_detail.txt") /\ ~Opens(dir, "mlperf_log_detail.txt")
    IN  IF raises
        THEN [raised |-> TRUE, valid |-> FALSE, warned |-> FALSE]
        ELSE IF acc = None
        THEN [raised |-> FALSE, valid |-> FALSE, warned |-> warned]
        ELSE [raised |-> FALSE, valid |-> target_check(model_norm, acc), warned |-> warned]

(***************************************************************************)
(* check_performance_dir                                                   *)
(***************************************************************************)
\* line 171: re.match("^Result\s+is\s*\:\s+VALID", line)
result_valid(line) ==
    LET a == SpanEnd(line, 7, WhiteSpace)
        b == SpanEnd(line, a + 2, WhiteSpace)
        c == SpanEnd(line, b + 1, WhiteSpace)
    IN  /\ StartsWith(line, "Result")
        /\ a > 7
        /\ MatchAt(line, a, "is")
        /\ MatchAt(line, b, ":")
        /\ c > b + 1
        /\ MatchAt(line, c, "VALID")

\* the class of group 1 of line 174, [\w\s.\(\)\/]
KeyChars == WordChars \cup WhiteSpace \cup {".", "(", ")", "/"}

\* the class of group 2 of line 174, [\w\+\.]
ValueChars == WordChars \cup {"+", "."}

\* lines 174-176: <<group(1).strip(), group(2).strip()>>, <<>> when the
\* pattern does not match.  Group 1 holds no ":", so the ":" matched is the
\* first of the line and group 1 is what precedes it.
key_value(line) ==
    LET c == FindAny(line, 1, {":"})
        v0 == SpanEnd(line, c + 1, WhiteSpace)
        v1 == SpanEnd(line, v0, ValueChars)
    IN  IF /\ c > 1
           /\ \A i \in 1..(c - 1) : Char(line, i) \in KeyChars
           /\ v1 > v0
        THEN <<Strip(SubSeq(line, 1, c - 1)), SubSeq(line, v0, v1 - 1)>>
        ELSE <<>>

\* the dictionary rt after the loop of lines 170-176
RECURSIVE parse_summary(_, _)
parse_summary(lines, rt) ==
    IF lines = <<>> THEN rt
    ELSE LET kv == key_value(Head(lines))
         IN  IF kv = <<>> THEN parse_summary(Tail(lines), rt)
             ELSE parse_summary(Tail(lines),
                     [k \in DOMAIN rt \cup {kv[1]} |->
                         IF k = kv[1] THEN kv[2] ELSE rt[k]])

\* lines 201-204: the headline result of a parsed summary
headline(rt) ==
    LET scenario == rt["Scenario"]
        res == FloatVal(rt[RESULT_VALUE[scenario]])
    IN  IF scenario \in {"Single Stream"} THEN FloatDiv(res, TOMS) ELSE res

\* sample_count_check with the unknown model marked invalid instead of only
\* logged
sample_count_check_unknown_invalid(is_valid, m, rt) ==
    IF m # None /\ m.v \in DOMAIN PERFORMANCE_SAMPLE_COUNT
    THEN IF IntLess(rt["performance_sample_count"], PERFORMANCE_SAMPLE_COUNT[m.v])
         THEN FALSE
         ELSE is_valid
    ELSE FALSE

\* lines 178-184: is_valid after the check of performance_sample_count, for a
\* model m as model_map returns it
sample_count_check(is_valid, m, rt) ==
    IF m # None /\ m.v \in DOMAIN PERFORMANCE_SAMPLE_COUNT
    THEN IF IntLess(rt["performance_sample_count"], PERFORMANCE_SAMPLE_COUNT[m.v])
         THEN FALSE
         ELSE is_valid
    ELSE is_valid   \* logs "not checked, bad model name" and leaves is_valid as it is

\* [raised, valid, res]: whether the call raised, and the pair it returned
check_performance_dir(model, dir) ==
    LET lines == Lines(dir, "mlperf_log_summary.txt")
        rt == parse_summary(lines, <<>>)
        m == model_map(model)
        known == m # None /\ m.v \in DOMAIN PERFORMANCE_SAMPLE_COUNT
        raises ==
            \/ ~Opens(dir, "mlperf_log_summary.txt")
            \/ known /\ "performance_sample_count" \notin DOMAIN rt
            \/ known /\ ~IsIntLit(rt["performance_sample_count"])
            \/ ~Opens(dir, "mlperf_log_detail.txt")
            \/ \E s \in DOMAIN SEEDS : s \notin DOMAIN rt \/ ~IsIntLit(rt[s])
            \/ "Scenario" \notin DOMAIN rt
            \/ rt["Scenario"] \notin DOMAIN RESULT_VALUE
            \/ RESULT_VALUE[rt["Scenario"]] \notin DOMAIN rt
            \/ ~IsFloatLit(rt[RESULT_VALUE[rt["Scenario"]]])
    IN  IF raises THEN [raised |-> TRUE, valid |-> FALSE, res |-> None]
        ELSE [raised |-> FALSE,
              valid |-> sample_count_check(\E i \in DOMAIN lines : result_valid(lines[i]), m, rt),
              res |-> headline(rt)]

(***************************************************************************)
(* compare_json                                                            *)
(*                                                                         *)
(* file is what open(fname) and json.load find: kind "missing" (open       *)
(* raises), "invalid" (json.load raises), "value" (a JSON value that is no *)
(* object) or "dict" with items, the <<key, value>> pairs in the           *)
(* dictionary's order.  A value of a JSON document is a Python value: a    *)
(* JSON string s is Str(s), null is None.  A template is a JSON object     *)
(* too, the sequence of its <<field, tag>> pairs.  A message is            *)
(* [msg, path, what]: the text of the format string, its first argument,   *)
(* and the tuple of its further arguments.                                 *)
(***************************************************************************)
Message(msg, path, what) == [msg |-> msg, path |-> path, what |-> what]

\* dict.get(k): None for a key that is absent
Get(items, k) ==
    IF \E i \in DOMAIN items : items[i][1] = k
    THEN items[CHOOSE i \in DOMAIN items : items[i][1] = k][2]
    ELSE None

Keys(items) == {items[i][1] : i \in DOMAIN items}

\* lines 302-305: one error for each required field of the template that j lacks
RECURSIVE missing_fields(_, _, _)
missing_fields(fname, items, tpl) ==
    IF tpl = <<>> THEN <<>>
    ELSE (IF Get(items, Head(tpl)[1]) = None /\ Head(tpl)[2] = Str("required")
          THEN <<Message("field missing", fname, <<Head(tpl)[1]>>)>>
          ELSE <<>>) \o missing_fields(fname, items, Tail(tpl))

\* lines 308-311: one error for each field of j that the template lacks
RECURSIVE unknown_fields(_, _, _)
unknown_fields(fname, items, tpl) ==
    IF items = <<>> THEN <<>>
    ELSE (IF Get(tpl, Head(items)[1]) = None
          THEN <<Message("has unknwon field", fname, <<Head(items)[1]>>)>>
          ELSE <<>>) \o unknown_fields(fname, Tail(items), tpl)

\* the list errors after the call (lines 298-313)
compare_json_errors(fname, tpl, errs, file) ==
    IF file.kind = "dict"
    THEN errs \o missing_fields(fname, file.items, tpl)
              \o unknown_fields(fname, file.items, tpl)
    ELSE errs \o <<Message("unexpected error", fname, <<file.kind>>)>>

\* compare_json with the returned comparison inverted
compare_json_inverted(fname, tpl, errs, file) ==
    Len(errs) # Len(compare_json_errors(fname, tpl, errs, file))

\* the value returned (lines 297 and 314)
compare_json(fname, tpl, errs, file) ==
    LET error_count == Len(errs)
    IN  error_count = Len(compare_json_errors(fname, tpl, errs, file))

(***************************************************************************)
(* The inputs of single calls.                                             *)
(***************************************************************************)
FileNames ==
    {"mlperf_log_accuracy.json", "mlperf_log_summary.txt", "mlperf_log_detail.txt",
     "accuracy.txt", "mlperf_log_trace.json", "results.json", "notes.txt"}

\* the duplicate-free listings of at most n names of S
RECURSIVE Listings(_, _)
Listings(S, n) ==
    IF n = 0 THEN {<<>>}
    ELSE {<<>>} \cup {<<f>> \o q : f \in S, q \in Listings(S, n - 1)}

DistinctListings(S, n) ==
    {q \in Listings(S, n) : \A i, j \in DOMAIN q : q[i] = q[j] => i = j}

\* raw model names: canonical, normalised by prefix, and unknown
ModelNames == {"resnet", "mobilenet-v1", "my-model"}

\* accuracy texts: above and below the targets, at the double just below
\* the target of mobilenet and at a decimal that float() rounds up to it,
\* with a tabulation after "BLEU:", and without a number
AccuracyTexts ==
    {<<"accuracy=77.50%, good=38750, total=50000">>,
     <<"accuracy=70.2464%, good=35123, total=50000">>,
     <<"accuracy=70.24640000000000001%, good=35123, total=50000">>,
     <<"accuracy=70.246400000000002%, good=35123, total=50000">>,
     <<"accuracy=75.6954%, good=37847, total=50000">>,
     <<"loading annotations", "mAP=22.137%">>,
     <<"BLEU:  23.9">>,
     <<"BLEU:23.9">>,
     <<"accuracy=1.2.3">>,
     <<"accuracy=%">>,
     <<"no result">>}

DetailTexts ==
    {<<"pid 1 : started">>,
     <<"pid 1 : ERROR : something failed">>}

\* the accuracy directories drawn: a complete listing, one without the
\* detail log, one where mlperf_log_detail.txt is a directory, and one where
\* accuracy.txt is
AccuracyDirs ==
    {[list |-> REQUIRED_ACC_FILES, dirs |-> {},
      text |-> [f \in {"accuracy.txt", "mlperf_log_detail.txt"} |->
                   IF f = "accuracy.txt" THEN a ELSE d]]
        : a \in AccuracyTexts, d \in DetailTexts}
    \cup
    {[list |-> <<"accuracy.txt", "mlperf_log_accuracy.json", "mlperf_log_summary.txt">>,
      dirs |-> ds,
      text |-> [f \in {"accuracy.txt"} |-> a]]
        : a \in AccuracyTexts, ds \in {{}, {"mlperf_log_detail.txt"}}}
    \cup
    {[list |-> <<"mlperf_log_accuracy.json", "mlperf_log_detail.txt", "mlperf_log_summary.txt">>,
      dirs |-> {"accuracy.txt"},
      text |-> [f \in {"mlperf_log_detail.txt"} |-> d]] : d \in DetailTexts}

ScenarioLines ==
    {<<"Scenario : Single Stream", "90th percentile latency (ns) : 5000000">>,
     <<"Scenario : Offline", "Samples per second : 1234.5">>,
     <<"Scenario : Server", "Scheduled samples per second : 100.00">>,
     <<"Scenario : Server", "Scheduled samples per second : n/a">>,
     <<"Scenario: Offline", "Samples per second : 1.23457e+06">>,
     <<"Scenario : Offline", "Samples per second : inf">>,
     <<"Scenario : Offline">>,
     <<"Samples per second : 1234.5">>}

\* the line of the verdict, or none
ResultLines ==
    {<<"Result is : VALID">>, <<"Result is : INVALID">>, <<"Result is :VALID">>,
     <<"Resultis : VALID">>, <<>>}

\* the line of the sample count, or none
CountLines ==
    {<<"performance_sample_count : 1024">>, <<"performance_sample_count : 16">>,
     <<"performance_sample_count : many">>,
     <<"performance_sample_count : 1" \o Zeros(MaxStrDigits)>>, <<>>}

SeedLines ==
    {<<"qsl_rng_seed : 3133965575612453542",
       "sample_index_rng_seed : 665484352860916858",
       "schedule_rng_seed : 3622009729038561421">>,
     <<"qsl_rng_seed : 1",
       "sample_index_rng_seed : 665484352860916858",
       "schedule_rng_seed : 3622009729038561421">>,
     <<"qsl_rng_seed : 3133965575612453542",
       "schedule_rng_seed : 3622009729038561421">>}

SummaryTexts ==
    {<<"MLPerf Results Summary">> \o sc \o r \o c \o sd
        : sc \in ScenarioLines, r \in ResultLines, c \in CountLines, sd \in SeedLines}

\* the performance directories drawn: a complete listing, one without the
\* detail log, and one where mlperf_log_detail.txt is a directory
PerformanceDirs ==
    {[list |-> REQUIRED_PERF_FILES, dirs |-> {},
      text |-> [f \in {"mlperf_log_summary.txt"} |-> t]] : t \in SummaryTexts}
    \cup
    {[list |-> <<"mlperf_log_summary.txt", "mlperf_log_accuracy.json">>, dirs |-> ds,
      text |-> [f \in {"mlperf_log_summary.txt"} |-> t]]
        : ds \in {{}, {"mlperf_log_detail.txt"}}, t \in SummaryTexts}

JsonValues ==
    [k \in {"submitter", "division", "status", "comment"} |->
        CASE k = "submitter" -> {Str("subA"), Str("subB")}
          [] k = "division" -> {Str("closed"), Str("open")}
          [] k = "status" -> {Str("available"), Str("None"), None}
          [] OTHER -> {Str("x")}]

\* the <<key, value>> pairs of the keys of order that are in D, in that order
RECURSIVE Pairs(_, _, _)
Pairs(order, D, val) ==
    IF order = <<>> THEN <<>>
    ELSE (IF Head(order) \in D THEN <<<<Head(order), val[Head(order)]>>>> ELSE <<>>)
         \o Pairs(Tail(order), D, val)

JsonOrder == <<"division", "submitter", "status", "comment">>

JsonAssignments ==
    {v \in [DOMAIN JsonValues -> UNION {JsonValues[k] : k \in DOMAIN JsonValues}]
        : \A k \in DOMAIN JsonValues : v[k] \in JsonValues[k]}

JsonFiles ==
    {[kind |-> k, items |-> <<>>] : k \in {"missing", "invalid", "value"}}
    \cup
    {[kind |-> "dict", items |-> Pairs(JsonOrder, D, val)]
        : D \in SUBSET DOMAIN JsonValues, val \in JsonAssignments}

Templates ==
    {<<<<"division", Str("required")>>, <<"submitter", Str("required")>>,
       <<"status", Str("required")>>>>,
     <<<<"submitter", Str("required")>>, <<"division", Str("optional")>>>>,
     <<>>}

OldErrors ==
    {<<>>, <<Message("field missing", "closed/subA/systems/sys0.json", <<"status">>)>>}

(***************************************************************************)
(* Single calls of the pure functions: SpecCall.                           *)
(***************************************************************************)
\* the state of the collections before any call
Idle ==
    /\ queue = <<>>
    /\ cur = <<>>
    /\ good = <<>>
    /\ bad = <<>>
    /\ results = <<>>
    /\ seen = <<>>
    /\ has_warned = FALSE
    /\ idx = 1
    /\ checked = {}
    /\ meta_errors = <<>>
    /\ measurement_errors = <<>>

InitCall ==
    /\ pc = "call"
    /\ ret = None
    /\ Idle
    /\ \/ arg \in [fn : {"files_diff"},
                   list1 : DistinctListings(FileNames, MaxFiles),
                   list2 : {REQUIRED_PERF_FILES, REQUIRED_ACC_FILES}]
       \/ arg \in [fn : {"compare_json"},
                   fname : {"closed/subA/systems/sys1.json"},
                   template : Templates,
                   errors : OldErrors,
                   file : JsonFiles]
       \/ arg \in [fn : {"check_accuracy_dir"}, model : ModelNames, dir : AccuracyDirs]
       \/ arg \in [fn : {"check_performance_dir"}, model : ModelNames, dir : PerformanceDirs]

\* files_diff(list1, list2): the returned list, and list1 as the call leaves it
FilesDiffCall ==
    /\ pc = "call"
    /\ arg.fn = "files_diff"
    /\ ret' = [diff |-> files_diff(arg.list1, arg.list2),
               list1 |-> IF arg.list1 # <<>> /\ arg.list2 # <<>>
                         THEN StripOptional(arg.list1) ELSE arg.list1]
    /\ pc' = "returned"
    /\ UNCHANGED <<arg, walkvars>>

\* compare_json(fname, template, errors): the returned value, and errors as
\* the call leaves it
CompareJsonCall ==
    /\ pc = "call"
    /\ arg.fn = "compare_json"
    /\ ret' = [value |-> compare_json(arg.fname, arg.template, arg.errors, arg.file),
               errors |-> compare_json_errors(arg.fname, arg.template, arg.errors, arg.file)]
    /\ pc' = "returned"
    /\ UNCHANGED <<arg, walkvars>>

CheckAccuracyCall ==
    /\ pc = "call"
    /\ arg.fn = "check_accuracy_dir"
    /\ ret' = check_accuracy_dir(arg.model, arg.dir)
    /\ pc' = IF ret'.raised THEN "raised" ELSE "returned"
    /\ UNCHANGED <<arg, walkvars>>

CheckPerformanceCall ==
    /\ pc = "call"
    /\ arg.fn = "check_performance_dir"
    /\ ret' = check_performance_dir(arg.model, arg.dir)
    /\ pc' = IF ret'.raised THEN "raised" ELSE "returned"
    /\ UNCHANGED <<arg, walkvars>>

NextCall == FilesDiffCall \/ CompareJsonCall \/ CheckAccuracyCall \/ CheckPerformanceCall

SpecCall == InitCall /\ [][NextCall]_vars

(***************************************************************************)
(* Claims about single calls, checked under SpecCall.                      *)
(***************************************************************************)
Returned(fn) == pc = "returned" /\ arg.fn = fn

\* the text a summary gives as its Scenario: what follows the ":" of the last
\* line whose field is Scenario, stripped
RECURSIVE scenario_text(_)
scenario_text(lines) ==
    IF lines = <<>> THEN None
    ELSE LET l == lines[Len(lines)]
             kv == key_value(l)
         IN  IF kv # <<>> /\ kv[1] = "Scenario"
             THEN Str(Strip(SubSeq(l, FindAny(l, 1, {":"}) + 1, Len(l))))
             ELSE scenario_text(SubSeq(lines, 1, Len(lines) - 1))

\* the headline value of a summary as float() reads it, before any division
raw_result(lines) ==
    LET rt == parse_summary(lines, <<>>)
    IN  FloatVal(rt[RESULT_VALUE[rt["Scenario"]]])

\* C3: check_performance_dir returns the parsed headline value divided by
\* 1,000,000 when the summary's Scenario is "Single Stream", and unchanged
\* for every other scenario; `Scenario : Single Stream` with
\* `90th percentile latency (ns) : 5000000` gives 5.0.
C3_SingleStreamDivided ==
    Returned("check_performance_dir") =>
        LET lines == Lines(arg.dir, "mlperf_log_summary.txt")
        IN  ret.res = IF scenario_text(lines) = Str("Single Stream")
                      THEN FloatDiv(raw_result(lines), TOMS)
                      ELSE raw_result(lines)

\* C4 as stated: with a model that model_map does not know, check_accuracy_dir
\* returns false and check_performance_dir returns validity false.
C4_UnknownModelInvalid ==
    (/\ pc = "returned"
     /\ arg.fn \in {"check_accuracy_dir", "check_performance_dir"}
     /\ model_map(arg.model) = None)
        => ret.valid = FALSE

\* C4 as amended: with a model that model_map does not know, the validators
\* leave validity as the files decide it: each of them may raise, and when
\* it returns, check_accuracy_dir returns true exactly when accuracy.txt
\* holds a recognised accuracy line, and check_performance_dir returns
\* validity true exactly when the summary holds a `Result is : VALID` line.
C4_UnknownModelKeepsValidity ==
    (pc = "returned" /\ arg.fn \in {"check_accuracy_dir", "check_performance_dir"}
     /\ model_map(arg.model) = None)
        => IF arg.fn = "check_accuracy_dir"
           THEN ret.valid = (\E i \in DOMAIN Lines(arg.dir, "accuracy.txt") :
                                acc_match(Lines(arg.dir, "accuracy.txt")[i]) # None)
           ELSE ret.valid = (\E i \in DOMAIN Lines(arg.dir, "mlperf_log_summary.txt") :
                                result_valid(Lines(arg.dir, "mlperf_log_summary.txt")[i]))

C4_Witness ==
    /\ Returned("check_performance_dir")
    /\ model_map(arg.model) = None
    /\ "Result is : VALID" \in Range(Lines(arg.dir, "mlperf_log_summary.txt"))
    /\ ret.valid = TRUE

\* the new errors of a compare_json call
NewErrors == SubSeq(ret.errors, Len(arg.errors) + 1, Len(ret.errors))

\* C7 as stated: compare_json returns true exactly when the call appended at
\* least one new error, and never raises.
C7_TrueWhenErrorAdded ==
    (pc # "call" /\ arg.fn = "compare_json")
        => pc = "returned" /\ (ret.value = TRUE <=> NewErrors # <<>>)

\* C7 as amended: compare_json returns true exactly when the call appended no
\* new error, which is when the file loads as a JSON object that has every
\* required field of the template and no field the template lacks; it returns
\* false when it appended at least one; it never raises, and only appends.
C7_TrueWhenNoErrorAdded ==
    (pc # "call" /\ arg.fn = "compare_json")
        => /\ pc = "returned"
           /\ SubSeq(ret.errors, 1, Len(arg.errors)) = arg.errors
           /\ ret.value = TRUE <=> NewErrors = <<>>
           /\ ret.value = TRUE <=>
                /\ arg.file.kind = "dict"
                /\ \A i \in DOMAIN arg.template :
                      arg.template[i][2]
                      = Str("required")
                          => \E j \in DOMAIN arg.file.items :
                                /\ arg.file.items[j][1] = arg.template[i][1]
                                /\ arg.file.items[j][2] # None
                /\ Keys(arg.file.items) \subseteq Keys(arg.template)

C7_Witness ==
    /\ Returned("compare_json")
    /\ arg.errors # <<>>
    /\ Len(NewErrors) = 2
    /\ ret.value = FALSE

\* C8: for a duplicate-free actual list, files_diff returns an empty list
\* exactly when the actual files without mlperf_log_trace.json and
\* results.json are the required files; never an empty list when a required
\* file is absent, the empty actual list included.
C8_EmptyIffSetsMatch ==
    Returned("files_diff") =>
        (ret.diff = {} <=>
            Range(arg.list1) \ {"mlperf_log_trace.json", "results.json"} = Range(arg.list2))

(***************************************************************************)
(* check_results_dir                                                       *)
(*                                                                         *)
(* The tree under the input directory is a sequence of submitter           *)
(* directories [division, submitter, results, systems]: results says what  *)
(* <division>/<submitter>/results is ("dir", "file", or "none" when it     *)
(* does not exist), systems lists the directories under it as              *)
(* [system, models], and a model directory is [model, scenarios].  The     *)
(* files are read when the walk reaches them.                              *)
(***************************************************************************)
\* dict[k] = v
Put(f, k, v) == [x \in DOMAIN f \cup {k} |-> IF x = k THEN v ELSE f[x]]

RECURSIVE Flat(_)
Flat(qq) == IF qq = <<>> THEN <<>> ELSE Head(qq) \o Flat(Tail(qq))

Event(kind, d, sys, model, scenario) ==
    [kind |-> kind, division |-> d.division, submitter |-> d.submitter,
     system |-> sys, model |-> model, scenario |-> scenario]

\* lines 243 and 248: the model directories of a system and their scenarios
ModelEvents(d, sys) ==
    Flat([j \in DOMAIN sys.models |->
            <<Event("model", d, sys.system, sys.models[j].model, "")>>
            \o [k \in DOMAIN sys.models[j].scenarios |->
                  Event("scenario", d, sys.system, sys.models[j].model,
                        sys.models[j].scenarios[k])]])

\* lines 230-239: what the loops yield for one submitter directory
SubmitterEvents(d, filter_submitter) ==
    IF d.division \notin {"closed", "open"} THEN <<>>
    ELSE IF filter_submitter \notin {None, Str("")} /\ Str(d.submitter) # filter_submitter
    THEN <<>>
    ELSE IF d.results = "none" THEN <<Event("nosub", d, "", "", "")>>
    ELSE IF d.results = "file" THEN <<Event("notdir", d, "", "", "")>>
    ELSE Flat([i \in DOMAIN d.systems |->
                 <<Event("system", d, d.systems[i].system, "", "")>>
                 \o ModelEvents(d, d.systems[i])])

\* lines 229-248: the order in which the nested loops reach the directories
Enumerate(tree, filter_submitter) ==
    Flat([i \in DOMAIN tree |-> SubmitterEvents(tree[i], filter_submitter)])

results_path_of(e) == Join(Join(e.division, e.submitter), "results")

\* line 249
name_of(e) == Join(Join(Join(results_path_of(e), e.system), e.model), e.scenario)

\* lines 263-272: the run folders expected, for the newest naming that exists
run_names(scenario, layout) ==
    IF layout = "." THEN <<".">>
    ELSE IF scenario \in {"Server"}
         THEN [i \in 1..5 |-> layout \o CASE i = 1 -> "1" [] i = 2 -> "2" [] i = 3 -> "3"
                                          [] i = 4 -> "4" [] OTHER -> "5"]
         ELSE <<layout \o "1">>

\* lines 258-262: bad_submissions after the accuracy directory is checked;
\* chk is what check_accuracy_dir returned
accuracy_update(b, name, acc_path, dir, chk) ==
    LET d == files_diff(dir.list, REQUIRED_ACC_FILES)
        b1 == IF d # {} THEN Put(b, name, Message("has file list mismatch", acc_path, <<d>>))
              ELSE b
    IN  IF ~chk.valid THEN Put(b1, name, Message("has issues", acc_path, <<>>)) ELSE b1

\* lines 279-287: bad_submissions after one run directory is checked; chk is
\* what check_performance_dir did
run_update_keeps_mismatch(b, name, perf_path, dir, chk) ==
    LET d == files_diff(dir.list, REQUIRED_PERF_FILES)
    IN  IF d # {} THEN Put(b, name, Message("has file list mismatch", perf_path, <<d>>))
        ELSE IF chk.raised \/ ~chk.valid
        THEN Put(b, name, Message("has issues", perf_path, <<>>))
        ELSE b

run_update(b, name, perf_path, dir, chk) ==
    LET d == files_diff(dir.list, REQUIRED_PERF_FILES)
        b1 == IF d # {} THEN Put(b, name, Message("has file list mismatch", perf_path, <<d>>))
              ELSE b
    IN  IF chk.raised \/ ~chk.valid
        THEN Put(b1, name, Message("has issues", perf_path, <<>>))
        ELSE b1

\* lines 250 and 285: the str "NoResults"; the results map also holds floats
NoResults == Str("NoResults")

\* lines 283-285: results[name] after one run directory is checked
run_result(chk) == IF chk.raised THEN NoResults ELSE chk.res

(***************************************************************************)
(* The files the walk draws.                                               *)
(***************************************************************************)
GoodSummary ==
    <<"MLPerf Results Summary", "Scenario : Offline", "Samples per second : 1234.5",
      "Result is : VALID", "performance_sample_count : 1024",
      "qsl_rng_seed : 3133965575612453542",
      "sample_index_rng_seed : 665484352860916858",
      "schedule_rng_seed : 3622009729038561421">>

InvalidSummary ==
    <<"MLPerf Results Summary", "Scenario : Offline", "Samples per second : 1234.5",
      "Result is : INVALID", "performance_sample_count : 1024",
      "qsl_rng_seed : 3133965575612453542",
      "sample_index_rng_seed : 665484352860916858",
      "schedule_rng_seed : 3622009729038561421">>

\* a directory with the regular files of list, where f holds lines
Dir(list, f, lines) == [list |-> list, dirs |-> {}, text |-> [x \in {f} |-> lines]]

\* run directories: complete and valid, complete and invalid, without the
\* detail log, without mlperf_log_accuracy.json, and without any file
WalkRunDirs ==
    {Dir(REQUIRED_PERF_FILES, "mlperf_log_summary.txt", GoodSummary),
     Dir(REQUIRED_PERF_FILES, "mlperf_log_summary.txt", InvalidSummary),
     Dir(<<"mlperf_log_summary.txt", "mlperf_log_accuracy.json">>,
         "mlperf_log_summary.txt", GoodSummary),
     Dir(<<"mlperf_log_summary.txt", "mlperf_log_detail.txt", "mlperf_log_trace.json">>,
         "mlperf_log_summary.txt", GoodSummary),
     Dir(<<>>, "mlperf_log_summary.txt", <<>>)}

\* accuracy directories: complete and on target, complete and below target,
\* without the detail log, with an accuracy float() rejects, without
\* accuracy.txt, and with directories named accuracy.txt and
\* mlperf_log_detail.txt
WalkAccuracyDirs ==
    {Dir(REQUIRED_ACC_FILES, "accuracy.txt", <<"accuracy=77.50%, good=38750, total=50000">>),
     Dir(REQUIRED_ACC_FILES, "accuracy.txt", <<"accuracy=70.2464%, good=35123, total=50000">>),
     Dir(<<"accuracy.txt", "mlperf_log_accuracy.json", "mlperf_log_summary.txt">>,
         "accuracy.txt", <<"accuracy=77.50%, good=38750, total=50000">>),
     Dir(REQUIRED_ACC_FILES, "accuracy.txt", <<"accuracy=1.2.3">>),
     Dir(<<"mlperf_log_accuracy.json">>, "accuracy.txt", <<>>),
     [Dir(<<"mlperf_log_accuracy.json">>, "accuracy.txt", <<>>)
         EXCEPT !.dirs = {"accuracy.txt"}],
     [Dir(<<"accuracy.txt", "mlperf_log_accuracy.json", "mlperf_log_summary.txt">>,
          "accuracy.txt", <<"accuracy=77.50%, good=38750, total=50000">>)
         EXCEPT !.dirs = {"mlperf_log_detail.txt"}]}

\* the directories drawn when main makes the calls: fewer, as the three
\* passes multiply
MainRunDirs ==
    {Dir(REQUIRED_PERF_FILES, "mlperf_log_summary.txt", GoodSummary),
     Dir(REQUIRED_PERF_FILES, "mlperf_log_summary.txt", InvalidSummary)}

MainAccuracyDirs ==
    {Dir(REQUIRED_ACC_FILES, "accuracy.txt", <<"accuracy=77.50%, good=38750, total=50000">>),
     Dir(<<"accuracy.txt", "mlperf_log_accuracy.json", "mlperf_log_summary.txt">>,
         "accuracy.txt", <<"accuracy=77.50%, good=38750, total=50000">>),
     Dir(<<"mlperf_log_accuracy.json">>, "accuracy.txt", <<>>)}

RunDirsOf(fn) == IF fn = "main" THEN MainRunDirs ELSE WalkRunDirs

AccuracyDirsOf(fn) == IF fn = "main" THEN MainAccuracyDirs ELSE WalkAccuracyDirs

(***************************************************************************)
(* The steps of check_results_dir.                                         *)
(***************************************************************************)
NoCur ==
    [division |-> "", submitter |-> "", system |-> "", model |-> "", scenario |-> "",
     name |-> "", device_bad |-> FALSE, n |-> <<>>, i |-> 1]

\* lines 225-227, and the listings the loops of lines 229-248 iterate
Start ==
    /\ pc = "start"
    /\ pc' = "walk"
    /\ queue' = Enumerate(arg.tree, arg.filter_submitter)
    /\ cur' = NoCur
    /\ good' = <<>>
    /\ bad' = <<>>
    /\ results' = <<>>
    /\ UNCHANGED <<arg, ret, seen, has_warned, xvars>>

\* lines 236-238: a submitter without a results directory
NoSubmission ==
    /\ pc = "walk"
    /\ queue # <<>>
    /\ Head(queue).kind = "nosub"
    /\ has_warned' = TRUE
    /\ queue' = Tail(queue)
    /\ UNCHANGED <<pc, arg, ret, cur, good, bad, results, seen, xvars>>

\* line 239: results is no directory, and os.listdir raises
ResultsNotDirectory ==
    /\ pc = "walk"
    /\ queue # <<>>
    /\ Head(queue).kind = "notdir"
    /\ pc' = "raised"
    /\ UNCHANGED <<arg, ret, walkvars>>

\* lines 239-242: the next system directory; e says whether
\* <division>/<submitter>/systems/<system>.json exists
EnterSystem ==
    /\ pc = "walk"
    /\ queue # <<>>
    /\ Head(queue).kind = "system"
    /\ \E e \in BOOLEAN :
          cur' = [NoCur EXCEPT !.division = Head(queue).division,
                               !.submitter = Head(queue).submitter,
                               !.system = Head(queue).system,
                               !.device_bad = ~e]
    /\ queue' = Tail(queue)
    /\ UNCHANGED <<pc, arg, ret, good, bad, results, seen, has_warned, xvars>>

\* lines 243-246: the next model directory
EnterModel ==
    /\ pc = "walk"
    /\ queue # <<>>
    /\ Head(queue).kind = "model"
    /\ LET e == Head(queue)
       IN  /\ cur' = [cur EXCEPT !.model = e.model]
           /\ bad' = IF Contains("closed", e.division) /\ e.model \notin Range(VALID_MODELS)
                     THEN Put(bad, Join(e.system, e.model),
                              Message("has an invalid model name",
                                      Join(results_path_of(e), e.system), <<e.model>>))
                     ELSE bad
    /\ queue' = Tail(queue)
    /\ UNCHANGED <<pc, arg, ret, good, results, seen, has_warned, xvars>>

\* lines 248-250: the next scenario directory
EnterScenario ==
    /\ pc = "walk"
    /\ queue # <<>>
    /\ Head(queue).kind = "scenario"
    /\ LET name == name_of(Head(queue))
       IN  /\ cur' = [cur EXCEPT !.scenario = Head(queue).scenario, !.name = name]
           /\ results' = Put(results, name, NoResults)
           /\ seen' = Put(seen, name, [device |-> ~cur.device_bad, missing |-> FALSE,
                                       raised |-> FALSE, lacking |-> <<>>])
    /\ queue' = Tail(queue)
    /\ pc' = "accuracy"
    /\ UNCHANGED <<arg, ret, good, bad, has_warned, xvars>>

\* lines 251-262: the accuracy directory dir, without accuracy.txt or with it
CheckAccuracy ==
    /\ pc = "accuracy"
    /\ \E dir \in AccuracyDirsOf(arg.fn) :
          LET acc_path == Join(cur.name, "accuracy")
              chk == check_accuracy_dir(cur.model, dir)
          IN  IF ~Exists(dir, "accuracy.txt")
              THEN /\ bad' = Put(bad, cur.name, Message("has no accuracy.txt", acc_path, <<>>))
                   /\ pc' = "select"
                   /\ UNCHANGED has_warned
              ELSE IF chk.raised
              THEN /\ pc' = "raised"
                   /\ UNCHANGED <<bad, has_warned>>
              ELSE /\ pc' = "select"
                   /\ bad' = accuracy_update(bad, cur.name, acc_path, dir, chk)
                   /\ has_warned' = (has_warned \/ chk.warned)
    /\ UNCHANGED <<arg, ret, queue, cur, good, results, seen, xvars>>

\* lines 263-272: layout is the newest naming whose first folder exists
SelectRuns ==
    /\ pc = "select"
    /\ \E layout \in {"run_", "run", "."} :
          cur' = [cur EXCEPT !.n = run_names(cur.scenario, layout), !.i = 1]
    /\ pc' = "perf"
    /\ UNCHANGED <<arg, ret, queue, good, bad, results, seen, has_warned, xvars>>

\* the position after run i
AfterRun == IF cur.i = Len(cur.n) THEN "finish" ELSE "perf"

\* the history of a run that lacks a file, after a later run of the scenario:
\* wrote says whether that run put a message under the same path
Later(lacking, wrote) ==
    IF lacking = <<>> THEN lacking
    ELSE <<[lacking[1] EXCEPT !.later = @ \/ wrote]>>

\* lines 274-278: an expected run folder that does not exist (the first one
\* of a numbered layout exists: line 266 or 268 found it)
RunMissing ==
    /\ pc = "perf"
    /\ cur.i > 1 \/ cur.n = <<".">>
    /\ LET perf_path == Join(Join(cur.name, "performance"), cur.n[cur.i])
       IN  bad' = Put(bad, cur.name, Message("missing", perf_path, <<>>))
    /\ seen' = [seen EXCEPT ![cur.name].missing = TRUE,
                            ![cur.name].lacking = Later(@, TRUE)]
    /\ cur' = [cur EXCEPT !.i = cur.i + 1]
    /\ pc' = AfterRun
    /\ UNCHANGED <<arg, ret, queue, good, results, has_warned, xvars>>

\* lines 276-279: an expected run folder that exists and is no directory, so
\* that os.listdir raises ("performance/." exists only for a directory)
RunNotDirectory ==
    /\ pc = "perf"
    /\ cur.n # <<".">>
    /\ pc' = "raised"
    /\ UNCHANGED <<arg, ret, walkvars>>

\* lines 274-287: an expected run folder that exists.  The history keeps, for
\* one of the runs that lack a required file, what was found and done there.
RunPresent ==
    /\ pc = "perf"
    /\ \E dir \in RunDirsOf(arg.fn) : \E chk \in {check_performance_dir(cur.model, dir)} :
          LET perf_path == Join(Join(cur.name, "performance"), cur.n[cur.i])
              absent == Range(REQUIRED_PERF_FILES) \ Range(dir.list)
              diff == files_diff(dir.list, REQUIRED_PERF_FILES)
              valid == ~chk.raised /\ chk.valid
              found == [path |-> perf_path, absent |-> absent, diff |-> diff,
                        valid |-> valid, later |-> FALSE]
              kept == Later(seen[cur.name].lacking, diff # {} \/ ~valid)
          IN  /\ bad' = run_update(bad, cur.name, perf_path, dir, chk)
              /\ results' = Put(results, cur.name, run_result(chk))
              /\ \E lk \in IF absent # {} THEN {kept, <<found>>} ELSE {kept} :
                    seen' = [seen EXCEPT ![cur.name].lacking = lk,
                                         ![cur.name].raised = @ \/ chk.raised]
    /\ cur' = [cur EXCEPT !.i = cur.i + 1]
    /\ pc' = AfterRun
    /\ UNCHANGED <<arg, ret, queue, good, has_warned, xvars>>

\* lines 288-291
FinishScenario ==
    /\ pc = "finish"
    /\ IF cur.device_bad
       THEN /\ bad' = Put(bad, cur.name, Message("no such system id", cur.name, <<cur.system>>))
            /\ UNCHANGED good
       ELSE /\ good' = Append(good, cur.name)
            /\ UNCHANGED bad
    /\ pc' = "walk"
    /\ UNCHANGED <<arg, ret, queue, cur, results, seen, has_warned, xvars>>

\* line 293, and line 401 when main made the call
WalkReturn ==
    /\ pc = "walk"
    /\ queue = <<>>
    /\ pc' = IF arg.fn = "main" THEN "meta" ELSE "returned"
    /\ UNCHANGED <<arg, ret, walkvars>>

WalkStep ==
    \/ Start
    \/ NoSubmission
    \/ ResultsNotDirectory
    \/ EnterSystem
    \/ EnterModel
    \/ EnterScenario
    \/ CheckAccuracy
    \/ SelectRuns
    \/ RunMissing
    \/ RunNotDirectory
    \/ RunPresent
    \/ FinishScenario
    \/ WalkReturn

(***************************************************************************)
(* check_results_dir on its own: SpecWalk.                                 *)
(***************************************************************************)
\* a tree of one submitter directory with one system and one model directory
Tree(division, results_is, model, scenarios) ==
    <<[division |-> division, submitter |-> "subA", results |-> results_is,
       systems |-> IF results_is = "dir"
                   THEN <<[system |-> "sys1",
                           models |-> <<[model |-> model, scenarios |-> scenarios]>>]>>
                   ELSE <<>>]>>

WalkTrees ==
    {Tree(dv, r, m, sc) :
        dv \in {"closed", "open", "retired"}, r \in {"dir", "file", "none"},
        m \in {"resnet", "my-model"},
        sc \in {<<>>, <<"Offline">>, <<"Server">>, <<"SingleStream", "Offline">>}}

InitWalk ==
    /\ pc = "start"
    /\ ret = None
    /\ arg \in [fn : {"check_results_dir"}, tree : WalkTrees,
                filter_submitter : {None, Str("subB")}]
    /\ Idle

SpecWalk == InitWalk /\ [][WalkStep]_vars

(***************************************************************************)
(* Claims about check_results_dir.                                         *)
(***************************************************************************)
\* C1 (as stated): when check_results_dir has returned, no path of the good
\* list has an entry in the bad-submission map.
C1_GoodNeverBad ==
    pc = "returned" => \A i \in DOMAIN good : good[i] \notin DOMAIN bad

\* the file-list-mismatch message of the run recorded in f
MismatchOf(f) == Message("has file list mismatch", f.path, <<f.diff>>)

\* the submissions whose system-description JSON exists and one of whose
\* existing run directories lacks a required file
LackingNames == {nm \in DOMAIN seen : seen[nm].device /\ seen[nm].lacking # <<>>}

\* C5 (as stated): when an existing performance run directory lacks a
\* required file and the system-description JSON exists, the entry of the
\* submission path after check_results_dir has returned is the
\* file-list-mismatch message naming the absent files.
C5_MismatchMessageStays ==
    pc = "returned" =>
        \A nm \in LackingNames :
            /\ nm \in DOMAIN bad
            /\ bad[nm] = Message("has file list mismatch", seen[nm].lacking[1].path,
                                 <<seen[nm].lacking[1].absent>>)

\* C5 (amended): such a submission path has an entry after check_results_dir
\* has returned, and the entry is the run's file-list-mismatch message exactly
\* when the run's file diff is not empty, check_performance_dir returned valid
\* for the run, and no later run of the scenario wrote a message.  When
\* check_performance_dir raised or returned invalid for the run and no later
\* run of the scenario wrote a message, the entry is "<perf_path> has issues".
C5_MismatchUnlessOverwritten ==
    pc = "returned" =>
        \A nm \in LackingNames :
            LET f == seen[nm].lacking[1]
            IN  /\ nm \in DOMAIN bad
                /\ bad[nm] = MismatchOf(f) <=> (f.diff # {} /\ f.valid /\ ~f.later)
                /\ (~f.valid /\ ~f.later) => bad[nm] = Message("has issues", f.path, <<>>)

\* C5 witness: a run directory without mlperf_log_detail.txt, system JSON
\* present, and the entry after the walk is "<perf_path> has issues".
C5_Witness ==
    /\ pc = "returned"
    /\ \E nm \in LackingNames :
          /\ seen[nm].lacking[1].absent = {"mlperf_log_detail.txt"}
          /\ seen[nm].lacking[1].diff = {"mlperf_log_detail.txt"}
          /\ nm \in DOMAIN bad
          /\ bad[nm] = Message("has issues", seen[nm].lacking[1].path, <<>>)

\* C6 (as stated): a submission with a missing expected run folder, or for
\* which check_performance_dir raised on some run, is in the bad-submission
\* map and its result after the walk is "NoResults".
C6_NoResultsWhenRunMissing ==
    pc = "returned" =>
        \A nm \in DOMAIN seen :
            (seen[nm].missing \/ seen[nm].raised) =>
                (nm \in DOMAIN bad /\ results[nm] = NoResults)

(***************************************************************************)
(* check_measurement_dir                                                   *)
(*                                                                         *)
(* What one iteration finds on disk is a record md: sys_exists says        *)
(* whether measurements/<system> exists, dir_exists whether its            *)
(* <model>/<scenario> directory does, files is the listing of that         *)
(* directory, json what open and json.load find in the selected file, and  *)
(* code the set of the implementation names whose code directory exists.   *)
(***************************************************************************)
\* s[a:-e] of Python for a >= 0 and e > 0
Slice(s, a, e) == SubSeq(s, a + 1, Len(s) - e)

\* lines 362-364: one error for each required file the listing lacks
RECURSIVE missing_measure_files(_, _, _)
missing_measure_files(fname, files, required) ==
    IF required = <<>> THEN <<>>
    ELSE (IF Head(required) \notin Range(files)
          THEN <<Message("is missing", fname, <<Head(required)>>)>>
          ELSE <<>>) \o missing_measure_files(fname, files, Tail(required))

\* lines 366 and 370: whether the loop stops at the file i
is_system_file(i, system_desc, scenario) ==
    /\ StartsWith(i, system_desc)
    /\ EndsWith(i, "_" \o scenario \o ".json") \/ EndsWith(i, ".json")

\* lines 361-373: system_file and end, None when no file matches
select_system_file(files, system_desc, scenario) ==
    IF \E k \in DOMAIN files : is_system_file(files[k], system_desc, scenario)
    THEN LET k == CHOOSE k \in DOMAIN files :
                    /\ is_system_file(files[k], system_desc, scenario)
                    /\ \A h \in 1..(k - 1) : ~is_system_file(files[h], system_desc, scenario)
             i == files[k]
         IN  [system_file |-> Str(i),
              end |-> IF EndsWith(i, "_" \o scenario \o ".json")
                      THEN Len("_" \o scenario \o ".json") ELSE Len(".json")]
    ELSE [system_file |-> None, end |-> 0]

\* lines 351-381: one iteration of the loop over good_submissions
measure_one(submission, tpl, errs, md) ==
    LET parts == split_path(submission)
        system_desc == parts[4]
        measurement_dir == Join(Join(Join(parts[1], parts[2]), "measurements"), system_desc)
        model == parts[5]
        scenario == parts[6]
        fname == Join(Join(measurement_dir, model), scenario)
        e1 == errs \o missing_measure_files(fname, md.files, REQUIRED_MEASURE_FILES)
        sel == select_system_file(md.files, system_desc, scenario)
        impl == Slice(sel.system_file.v, Len(system_desc) + 1, sel.end)
        code_dir == Join(Join(Join(Join(parts[1], parts[2]), "code"), model), impl)
        e2 == compare_json_errors(Join(fname, sel.system_file.v), tpl, e1, md.json)
    IN  IF ~md.sys_exists
        THEN [raised |-> FALSE, system_file |-> None, impl |-> None,
              errors |-> Append(errs, Message("directory missing", measurement_dir, <<>>))]
        ELSE IF ~md.dir_exists
        THEN [raised |-> TRUE, system_file |-> None, impl |-> None, errors |-> errs]
        ELSE IF sel.system_file \in {None, Str("")}
        THEN [raised |-> FALSE, system_file |-> None, impl |-> None,
              errors |-> Append(e1, Message("is missing *.json", fname, <<system_desc>>))]
        ELSE [raised |-> FALSE, system_file |-> sel.system_file, impl |-> Str(impl),
              errors |-> IF impl \in md.code THEN e2
                         ELSE Append(e2, Message("is missing", code_dir, <<>>))]

\* an implementation JSON file with the fields of the template
ImplJson ==
    [kind |-> "dict", items |-> <<<<"submitter", Str("subA")>>, <<"division", Str("closed")>>>>]

MeasureDir(sys_exists, dir_exists, files, json, code) ==
    [sys_exists |-> sys_exists, dir_exists |-> dir_exists, files |-> files,
     json |-> json, code |-> code]

\* the measurement directories the model draws
MeasureDirs ==
    {MeasureDir(FALSE, FALSE, <<>>, ImplJson, {}),
     MeasureDir(TRUE, FALSE, <<>>, ImplJson, {}),
     MeasureDir(TRUE, TRUE, <<>>, ImplJson, {}),
     MeasureDir(TRUE, TRUE,
                <<"mlperf.conf", "user.conf", "README.md", "sys1_impl_Offline.json",
                  "sys1_other.json">>, ImplJson, {"impl", "other", "impl_Offline"}),
     MeasureDir(TRUE, TRUE,
                <<"mlperf.conf", "user.conf", "README.md", "sys1_other.json",
                  "sys1_impl_Offline.json">>, ImplJson, {"impl", "other", "impl_Offline"}),
     MeasureDir(TRUE, TRUE,
                <<"sys1_impl_Offline.json", "mlperf.conf", "user.conf">>,
                [kind |-> "invalid", items |-> <<>>], {"other"}),
     MeasureDir(TRUE, TRUE,
                <<"README.md", "user.conf", "mlperf.conf", "sys1.json">>,
                [kind |-> "dict",
                 items |-> <<<<"submitter", Str("subA")>>, <<"comment", Str("x")>>>>],
                {}),
     MeasureDir(TRUE, TRUE,
                <<"mlperf.conf", "user.conf", "README.md", "notes.json">>, ImplJson,
                {"impl"})}

MainMeasureDirs ==
    {MeasureDir(FALSE, FALSE, <<>>, ImplJson, {}),
     MeasureDir(TRUE, FALSE, <<>>, ImplJson, {}),
     MeasureDir(TRUE, TRUE,
                <<"mlperf.conf", "user.conf", "README.md", "sys1_impl_Offline.json",
                  "sys1_other.json">>, ImplJson, {"impl", "other", "impl_Offline"})}

MeasureDirsOf(fn) == IF fn = "main" THEN MainMeasureDirs ELSE MeasureDirs

\* lines 350-381: the iteration for good_submissions[idx]
MeasureStep ==
    /\ pc = "measure"
    /\ idx <= Len(good)
    /\ \E md \in MeasureDirsOf(arg.fn) :
          LET r == measure_one(good[idx], arg.systems_imp_json, measurement_errors, md)
          IN  /\ measurement_errors' = r.errors
              /\ cur' = [submission |-> good[idx], files |-> md.files,
                         system_file |-> r.system_file, impl |-> r.impl]
              /\ pc' = IF r.raised THEN "raised" ELSE "measure"
    /\ idx' = idx + 1
    /\ UNCHANGED <<arg, ret, queue, good, bad, results, seen, has_warned, checked, meta_errors>>

\* lines 383-386, and line 407 when main made the call
MeasureReturn ==
    /\ pc = "measure"
    /\ idx > Len(good)
    /\ pc' = IF arg.fn = "main" THEN "report" ELSE "returned"
    /\ UNCHANGED <<arg, ret, walkvars>>

(***************************************************************************)
(* check_measurement_dir on its own: SpecMeasure.                          *)
(***************************************************************************)
\* the longest list of good submissions handed to check_measurement_dir
MaxGood == 2

GoodNames ==
    {"closed/subA/results/sys1/resnet/Offline",
     "closed/subA/results/sys1/resnet/Server",
     "open/subA/results/sys1/my-model/Offline"}

InitMeasure ==
    /\ arg \in [fn : {"check_measurement_dir"},
                good_submissions : DistinctListings(GoodNames, MaxGood),
                systems_imp_json :
                    {<<<<"submitter", Str("required")>>, <<"division", Str("required")>>>>}]
    /\ pc = "measure"
    /\ ret = None
    /\ queue = <<>>
    /\ cur = <<>>
    /\ good = arg.good_submissions
    /\ bad = <<>>
    /\ results = <<>>
    /\ seen = <<>>
    /\ has_warned = FALSE
    /\ idx = 1
    /\ checked = {}
    /\ meta_errors = <<>>
    /\ measurement_errors = <<>>

NextMeasure == MeasureStep \/ MeasureReturn

SpecMeasure == InitMeasure /\ [][NextMeasure]_vars

(***************************************************************************)
(* Claims about check_measurement_dir, checked under SpecMeasure.          *)
(***************************************************************************)
\* C9 (as stated): check_measurement_dir does not raise; it returns after
\* every good submission was visited.
C9_MeasurementNeverRaises == arg.fn = "check_measurement_dir" => pc # "raised"

\* C10 (as stated): when the listing holds a file <system>..._<scenario>.json
\* and another <system>...json file, the file selected is the one ending in
\* _<scenario>.json, whatever the order of the listing.
C10_ScenarioFilePreferred ==
    (pc \in {"measure", "returned"} /\ idx > 1 /\ cur.system_file # None) =>
        LET parts == split_path(cur.submission)
            suffix == "_" \o parts[6] \o ".json"
        IN  (\E k \in DOMAIN cur.files :
                StartsWith(cur.files[k], parts[4]) /\ EndsWith(cur.files[k], suffix))
            => EndsWith(cur.system_file.v, suffix)

(***************************************************************************)
(* check_system_desc_id                                                    *)
(***************************************************************************)
\* the local j before the first json.load of line 335
Unbound == [kind |-> "unbound", items |-> <<>>]

\* lines 321-341: one iteration of the loop over good_submissions; j is the
\* local left by the earlier iterations, file what is at fname
desc_one(submission, tpl, errs, chk, j, file) ==
    LET parts == split_path(submission)
        system_desc == parts[4]
        submitter == parts[2]
        division == parts[1]
        fname == Join(Join(Join(parts[1], parts[2]), "systems"), system_desc \o ".json")
        same == [raised |-> FALSE, errors |-> errs, checked |-> chk, j |-> j]
    IN  IF division \notin Range(VALID_DIVISIONS)
        THEN IF j = Unbound \/ "submitter" \notin Keys(j.items)
             THEN [same EXCEPT !.raised = TRUE]
             ELSE [same EXCEPT !.errors =
                      Append(errs, Message("has invalid division", submission,
                                           <<Get(j.items, "submitter"), division>>))]
        ELSE IF fname \in chk THEN same
        ELSE IF ~compare_json(fname, tpl, errs, file)
        THEN [same EXCEPT !.checked = chk \cup {fname},
                          !.errors = compare_json_errors(fname, tpl, errs, file)]
        ELSE IF "submitter" \notin Keys(file.items)
        THEN [same EXCEPT !.checked = chk \cup {fname}, !.j = file, !.raised = TRUE]
        ELSE IF Get(file.items, "submitter") # Str(submitter)
        THEN [same EXCEPT !.checked = chk \cup {fname}, !.j = file,
                          !.errors = Append(errs, Message("has submitter", fname,
                                               <<Get(file.items, "submitter"), submitter>>))]
        ELSE IF "division" \notin Keys(file.items)
        THEN [same EXCEPT !.checked = chk \cup {fname}, !.j = file, !.raised = TRUE]
        ELSE IF Get(file.items, "division") # Str(division)
        THEN [same EXCEPT !.checked = chk \cup {fname}, !.j = file,
                          !.errors = Append(errs, Message("has division", fname,
                                               <<Get(file.items, "division"), division>>))]
        ELSE [same EXCEPT !.checked = chk \cup {fname}, !.j = file]

\* the system-description files the model draws.  The walk found that the
\* path exists; open still raises ("missing") when it is a directory.
SystemJsonFiles ==
    {[kind |-> "missing", items |-> <<>>],
     [kind |-> "invalid", items |-> <<>>],
     [kind |-> "dict", items |-> <<<<"division", Str("closed")>>, <<"submitter", Str("subA")>>,
                                   <<"status", Str("available")>>>>],
     [kind |-> "dict", items |-> <<<<"division", Str("open")>>, <<"submitter", Str("subB")>>,
                                   <<"status", Str("available")>>>>],
     [kind |-> "dict", items |-> <<<<"division", Str("open")>>, <<"submitter", Str("subA")>>,
                                   <<"status", Str("available")>>, <<"comment", Str("x")>>>>],
     [kind |-> "dict", items |-> <<<<"status", Str("available")>>>>]}

\* lines 318-319, entered from line 404
DescStart ==
    /\ pc = "meta"
    /\ pc' = "desc"
    /\ meta_errors' = <<>>
    /\ checked' = {}
    /\ idx' = 1
    /\ cur' = [j |-> Unbound]
    /\ UNCHANGED <<arg, ret, queue, good, bad, results, seen, has_warned, measurement_errors>>

\* lines 320-341: the iteration for good_submissions[idx]
DescStep ==
    /\ pc = "desc"
    /\ idx <= Len(good)
    /\ \E file \in SystemJsonFiles :
          LET r == desc_one(good[idx], arg.systems_json, meta_errors, checked, cur.j, file)
          IN  /\ meta_errors' = r.errors
              /\ checked' = r.checked
              /\ cur' = [j |-> r.j]
              /\ pc' = IF r.raised THEN "raised" ELSE "desc"
    /\ idx' = idx + 1
    /\ UNCHANGED <<arg, ret, queue, good, bad, results, seen, has_warned, measurement_errors>>

\* lines 342-345, and lines 404-407 and 349: main goes on to
\* check_measurement_dir
DescReturn ==
    /\ pc = "desc"
    /\ idx > Len(good)
    /\ pc' = "measure"
    /\ idx' = 1
    /\ measurement_errors' = <<>>
    /\ UNCHANGED <<arg, ret, queue, cur, good, bad, results, seen, has_warned, checked,
                   meta_errors>>

(***************************************************************************)
(* main                                                                    *)
(***************************************************************************)
\* lines 408-414: the number of entries of results that are not "NoResults"
with_results(res) == Cardinality({k \in DOMAIN res : res[k] # NoResults})

\* lines 417-422 with measurement_errors left out of the test
verdict_without_measurement(b, meta, measurement) ==
    IF DOMAIN b # {} \/ meta # <<>> THEN 1 ELSE 0

\* lines 417-422: the value main returns
verdict(b, meta, measurement) ==
    IF DOMAIN b # {} \/ meta # <<>> \/ measurement # <<>> THEN 1 ELSE 0

\* lines 408-422
Report ==
    /\ pc = "report"
    /\ ret' = [with_results |-> with_results(results),
               no_results |-> Cardinality(DOMAIN results) - with_results(results),
               verdict |-> verdict(bad, meta_errors, measurement_errors)]
    /\ pc' = "returned"
    /\ UNCHANGED <<arg, walkvars>>

MainTrees ==
    {Tree(dv, r, m, sc) :
        dv \in {"closed", "open"}, r \in {"dir", "none"}, m \in {"resnet", "my-model"},
        sc \in {<<>>, <<"Offline">>}}
    \cup {Tree("closed", "dir", "resnet", <<"SingleStream", "Offline">>),
          Tree("closed", "file", "resnet", <<>>),
          <<[division |-> "closed", submitter |-> "subB", results |-> "none",
             systems |-> <<>>]>> \o Tree("closed", "dir", "resnet", <<"Offline">>)}

\* the templates of system_desc_id.json and system_desc_id_imp.json, which
\* main loads at lines 393-396
Init ==
    /\ pc = "start"
    /\ ret = None
    /\ arg \in [fn : {"main"}, tree : MainTrees, filter_submitter : {None},
                systems_json :
                    {<<<<"division", Str("required")>>, <<"submitter", Str("required")>>,
                       <<"status", Str("required")>>>>,
                     <<<<"division", Str("optional")>>, <<"submitter", Str("optional")>>,
                       <<"status", Str("required")>>>>},
                systems_imp_json :
                    {<<<<"submitter", Str("required")>>, <<"division", Str("required")>>>>}]
    /\ Idle

Next ==
    \/ WalkStep
    \/ DescStart
    \/ DescStep
    \/ DescReturn
    \/ MeasureStep
    \/ MeasureReturn
    \/ Report

Spec == Init /\ [][Next]_vars

(***************************************************************************)
(* Claims about main, checked under Spec.                                  *)
(***************************************************************************)
\* C2: main returns 1 exactly when bad_submissions, meta_errors or
\* measurement_errors is not empty at the end of the run, and 0 otherwise;
\* warnings and the tally of results do not enter.
C2_VerdictIffErrors ==
    (pc = "returned" /\ arg.fn = "main") =>
        /\ ret.verdict \in {0, 1}
        /\ ret.verdict = 1 <=>
              (DOMAIN bad # {} \/ meta_errors # <<>> \/ measurement_errors # <<>>)

\* C2 witness: a run that logged a warning and checked a submission, and
\* whose verdict is success.
C2_Witness ==
    /\ pc = "returned"
    /\ arg.fn = "main"
    /\ has_warned
    /\ good # <<>>
    /\ ret.with_results = Len(good)
    /\ ret.verdict = 0

====
